---------------------------- MODULE Spec2Model ----------------------------
(***************************************************************************)
(* The document-embedding pipeline of model_server/embedding/embed.py:     *)
(* Embedder.embed_file, add_document, delete_document and query, over the  *)
(* two stores they coordinate (the "documents" table and the chroma        *)
(* collection) and the tree of uploaded files on disk.                     *)
(*                                                                         *)
(* Text is modelled at two grains.  A filename is a sequence of            *)
(* one-character strings, so that the slices filename[:8], filename[8:],   *)
(* filename[-4:] are computed as Python computes them.  An extracted text  *)
(* is a sequence of word lengths: <<500, 400>> is a 500-character word, a  *)
(* space, and a 400-character word.                                        *)
(*                                                                         *)
(* Scheduling.  The two stores are shared by every worker process of the   *)
(* server, and a request interleaves with the requests of other workers at *)
(* each store operation.  delete_document is a plain "def", which the      *)
(* framework runs on a thread, so it interleaves in the same way even      *)
(* within one process.  Two embed_file requests ("async def") served by    *)
(* the same event loop interleave only at the awaits of lines 140 and 143: *)
(* those runs are among the runs of Spec, which gives every request its    *)
(* own worker.  SeqSpec is the server handling one request at a time.      *)
(***************************************************************************)
EXTENDS Integers, Sequences, FiniteSets, Bags, TLC

VARIABLES
    registry,   \* the documents table: a bag of rows (id = uuid4() is fresh)
    index,      \* the chroma collection: a set of entries, one per id
    disk,       \* paths <<course_code, filename>> under documents/
    req,        \* req[r]: the request in slot r, its locals and position
    started,    \* how many requests were started
    hist,       \* hist[r]: what request r did so far: for an upload, how far
                \* each file went; for a deletion, the steps completed and
                \* how many rows or entries each removed (history)
    q,          \* the query under examination: distances, scope, result
    p,          \* the filename under examination and its result_dict
    tx          \* the text under examination and its chunks

vars == <<registry, index, disk, req, started, hist, q, p, tx>>

---------------------------------------------------------------------------
(* Bounds *)

\* Requests started in one run.
MaxRequests == 3
\* Requests started in a run whose requests overlap.
MaxConcurrent == 2
\* Files in one upload.
MaxBatch == 2
\* Characters in a filename given to ParseFilename alone.
MaxNameLen == 9
\* Entries of a collection given to query alone.
MaxEntries == 3

\* Words in a text given to the splitter alone.
MaxWords == 6

\* Requests in flight at once.
Slots == {1, 2}

---------------------------------------------------------------------------
(* Program constants *)

\* file.filename[:8] / file.filename[8:]
CodeLen == 8
\* chunk_size=800, chunk_overlap=200
chunk_size == 800
chunk_overlap == 200
\* results['distances'][0][0] < 1.0, in tenths
Threshold == 10

---------------------------------------------------------------------------
(* Characters and filenames *)

Min(a, b) == IF a < b THEN a ELSE b
Max(a, b) == IF a > b THEN a ELSE b

\* s[-n:]
Suffix(s, n) == SubSeq(s, Max(1, Len(s) - n + 1), Len(s))

DotPdf == <<".", "p", "d", "f">>
DotPptx == <<".", "p", "p", "t", "x">>
DotTxt == <<".", "t", "x", "t">>

IsPdf(fn) == Suffix(fn, 4) = DotPdf
IsPptx(fn) == Suffix(fn, 5) = DotPptx

\* The branches of lines 139-143 that await an extractor.
Awaits(fn) == IsPdf(fn) \/ IsPptx(fn)

\* ParseFilename with a course code of 7 characters.
ParseFilenameSeven(fn) ==
    [filename |-> SubSeq(fn, CodeLen, Len(fn)),
     course_code |-> SubSeq(fn, 1, Min(CodeLen - 1, Len(fn)))]

\* ParseFilename with the document name cut one character early.
ParseFilenameShifted(fn) ==
    [filename |-> SubSeq(fn, CodeLen, Len(fn)),
     course_code |-> SubSeq(fn, 1, Min(CodeLen, Len(fn)))]

\* result_dict = {"filename": file.filename[8:], "course_code": file.filename[:8]}
ParseFilename(fn) ==
    [filename |-> SubSeq(fn, CodeLen + 1, Len(fn)),
     course_code |-> SubSeq(fn, 1, Min(CodeLen, Len(fn)))]

Digits == <<"0", "1", "2", "3", "4", "5", "6", "7", "8", "9">>

RECURSIVE DecStr(_)
\* str(i)
DecStr(i) ==
    IF i < 10 THEN <<Digits[i + 1]>>
    ELSE DecStr(i \div 10) \o <<Digits[(i % 10) + 1]>>

\* f"{course_code}-{filename}-" + str(i)
IdOf(cc, fn, i) == cc \o <<"-">> \o fn \o <<"-">> \o DecStr(i)

CSCI1010 == <<"C", "S", "C", "I", "1", "0", "1", "0">>
MATH2020 == <<"M", "A", "T", "H", "2", "0", "2", "0">>

\* The uploads of the model: one name in two courses, a second name, and a
\* name whose extension has no extractor.
FileA == CSCI1010 \o <<"a">> \o DotPdf
FileMathA == MATH2020 \o <<"a">> \o DotPdf
FileB == CSCI1010 \o <<"b">> \o DotPptx
FileN == CSCI1010 \o <<"n">> \o DotTxt

\* An upload named "CSCI101LectureNotes.pdf".
FileLecture ==
    <<"C", "S", "C", "I", "1", "0", "1", "L", "e", "c", "t", "u", "r", "e",
      "N", "o", "t", "e", "s", ".", "p", "d", "f">>

Files == { FileA, FileMathA, FileB, FileN }

\* What the extractors can return for the uploads of a name.  FileA comes in
\* two versions: one short word (one chunk) and two long words (two chunks).
Contents(fn) ==
    IF fn = FileA THEN { <<300>>, <<500, 400>> }
    ELSE IF fn = FileB THEN { <<250>> }
    ELSE { <<300>> }

Batches == UNION { [1..n -> Files] : n \in 1..MaxBatch }

\* (course_code, filename) arguments of delete_document.
DeleteArgs == { ParseFilename(f) : f \in Files }

Paths == { <<d.course_code, d.filename>> : d \in DeleteArgs }

---------------------------------------------------------------------------
(* The text splitter: RecursiveCharacterTextSplitter(chunk_size=800,       *)
(* chunk_overlap=200, length_function=len), on a text of words of fewer    *)
(* than chunk_size - 1 characters separated by single spaces.  The splits  *)
(* are the words, each but the first carrying its leading space; a chunk   *)
(* is a run of consecutive words, stripped.                                *)

PieceLen(text, k) == IF k = 1 THEN text[k] ELSE text[k] + 1

RECURSIVE ShrinkToChunkSize(_, _, _, _)
\* Shrink with chunk_size where the overlap is meant.
ShrinkToChunkSize(text, s, total, len) ==
    IF total > chunk_size \/ (total + len > chunk_size /\ total > 0)
    THEN ShrinkToChunkSize(text, s + 1, total - PieceLen(text, s), len)
    ELSE <<s, total>>

RECURSIVE Shrink(_, _, _, _)
\* while total > chunk_overlap or (total + len > chunk_size and total > 0)
Shrink(text, s, total, len) ==
    IF total > chunk_overlap \/ (total + len > chunk_size /\ total > 0)
    THEN Shrink(text, s + 1, total - PieceLen(text, s), len)
    ELSE <<s, total>>

RECURSIVE MergeSplits(_, _, _, _, _)
\* _merge_splits: k the next split, s the first split of current_doc; a doc
\* is given as the span <<first, last>> of the splits joined in it
MergeSplits(text, k, s, total, docs) ==
    IF k > Len(text)
    THEN IF s < k THEN Append(docs, <<s, k - 1>>) ELSE docs
    ELSE LET len == PieceLen(text, k)
             over == total + len > chunk_size
             out == IF over /\ s < k
                    THEN Append(docs, <<s, k - 1>>) ELSE docs
             st == IF over /\ s < k THEN Shrink(text, s, total, len)
                   ELSE <<s, total>>
         IN MergeSplits(text, k + 1, st[1], st[2] + len, out)

\* split_text: the spans of the chunks of content
split_text(content) == MergeSplits(content, 1, 1, 0, <<>>)

\* docs = text_splitter.create_documents([extracted['content']]): each chunk
\* is the words of its span (joined and stripped)
create_documents(content) ==
    [j \in 1..Len(split_text(content)) |->
        SubSeq(content, split_text(content)[j][1], split_text(content)[j][2])]

---------------------------------------------------------------------------
(* The stores *)

Row(d) == [course_code |-> d.course_code, document_name |-> d.filename]

\* FirstMatch with document_name compared to the whole uploaded filename.
FirstMatchWholeName(reg, d) ==
    BagIn([course_code |-> d.course_code,
           document_name |-> d.course_code \o d.filename], reg)

\* db.query(Document).filter(course_code == ..).filter(document_name == ..).first()
FirstMatch(reg, d) == BagIn(Row(d), reg)

\* RegistryInsert under a unique constraint on (course_code, document_name).
RegistryInsertUnique(reg, d) ==
    IF BagIn(Row(d), reg) THEN reg ELSE reg (+) SetToBag({Row(d)})

\* db.add(Document(id=str(uuid4()), ...)); db.commit()
RegistryInsert(reg, d) == reg (+) SetToBag({Row(d)})

\* RegistryDelete removing the rows of one course only.
RegistryDeleteOneCourse(reg, name) ==
    IF \E y \in BagToSet(reg) : y.document_name = name
    THEN LET x == CHOOSE y \in BagToSet(reg) : y.document_name = name
         IN [y \in BagToSet(reg) \ {x} |-> reg[y]]
    ELSE reg

\* RegistryDelete without the filter on document_name.
RegistryDeleteAll(reg, name) == EmptyBag

RowsNamed(reg, name) == { x \in BagToSet(reg) : x.document_name = name }

\* db.query(Document).filter(Document.document_name == filename).delete(); db.commit()
RegistryDelete(reg, name) ==
    [x \in { y \in BagToSet(reg) : y.document_name # name } |-> reg[x]]

\* documents, metadatas and ids of lines 193-202
EntriesOf(d, docs) ==
    { [id |-> IdOf(d.course_code, d.filename, i - 1),
       document |-> docs[i],
       source |-> d.filename,
       course_code |-> d.course_code] : i \in 1..Len(docs) }

\* self._collection.add(...): an id the collection already holds is kept as it is
CollectionAdd(idx, new) ==
    idx \cup { e \in new : \A x \in idx : x.id # e.id }

Sourced(idx, doc_name) == { e \in idx : e.source = doc_name }

\* CollectionDelete with the filter on the wrong metadata key.
CollectionDeleteWrongKey(idx, doc_name) ==
    { e \in idx : e.course_code # doc_name }

\* self._collection.delete(where={"source": doc_name})
CollectionDelete(idx, doc_name) == { e \in idx : e.source # doc_name }

---------------------------------------------------------------------------
(* Requests *)

\* ExtractionResult(results=f"{len(result_list)} files added to vectorstore.")
ExtractionResult(n) ==
    [type |-> "ExtractionResult", count |-> n, detail |-> ""]

\* HTTPErrorResponse(detail="Embedding present")
EmbeddingPresent ==
    [type |-> "HTTPErrorResponse", count |-> 0, detail |-> "Embedding present"]

\* The strings delete_document returns.
Literal(s) == [type |-> "str", count |-> 0, detail |-> s]

NoResult == [type |-> "None", count |-> 0, detail |-> ""]

\* A slot: which handler runs in it, where it is, its arguments and locals.
NoRequest ==
    [kind |-> "none", pc |-> "idle", files |-> <<>>, i |-> 0,
     content |-> <<>>, result_list |-> <<>>, course_code |-> <<>>,
     filename |-> <<>>, result |-> NoResult]

\* A handler that returned: its locals are gone, its response stays.
Returned(rq, res) ==
    [NoRequest EXCEPT !.kind = rq.kind, !.pc = "done", !.result = res]

\* What became of one file of a batch: how far it went and how it ended.
Untouched == [status |-> "none", added |-> FALSE, committed |-> FALSE]

NoQuery == [dist |-> <<>>, course_id |-> <<>>, result |-> <<>>, asked |-> FALSE]
NoParse == [filename |-> <<>>, result_dict |-> <<>>, parsed |-> FALSE]
NoText == [text |-> <<>>, spans |-> <<>>, docs |-> <<>>, split |-> FALSE]

SlotFree(r) == req[r].pc \in {"idle", "done"}

\* A new request takes the lowest free slot.
Takes(r) == SlotFree(r) /\ \A r2 \in Slots : r2 < r => ~SlotFree(r2)

\* result_dict of the file the request is at (lines 133-136).
Current(rq) == ParseFilename(rq.files[rq.i])

Init ==
    /\ registry = EmptyBag
    /\ index = {}
    /\ disk = Paths
    /\ req = [r \in Slots |-> NoRequest]
    /\ started = 0
    /\ hist = [r \in Slots |-> <<>>]
    /\ q = NoQuery
    /\ p = NoParse
    /\ tx = NoText

---------------------------------------------------------------------------
(* embed_file *)

\* POST /
EmbedFile(r, files) ==
    /\ started < MaxRequests
    /\ Takes(r)
    /\ started' = started + 1
    /\ req' = [req EXCEPT ![r] =
                 [NoRequest EXCEPT !.kind = "embed", !.pc = "extract",
                                   !.files = files, !.i = 1]]
    /\ hist' = [hist EXCEPT ![r] = [j \in 1..Len(files) |-> Untouched]]
    /\ UNCHANGED <<registry, index, disk, q, p, tx>>

\* AfterFile counting the files gone through instead of len(result_list).
AfterFileCountsAll(rq, rl) ==
    IF rq.i < Len(rq.files)
    THEN [rq EXCEPT !.pc = "extract", !.i = rq.i + 1, !.result_list = rl]
    ELSE Returned(rq, ExtractionResult(rq.i))

\* The end of one iteration of "for file in files" (line 166, or the except
\* clause of lines 168-170), and line 172 after the last one.
AfterFile(rq, rl) ==
    IF rq.i < Len(rq.files)
    THEN [rq EXCEPT !.pc = "extract", !.i = rq.i + 1, !.result_list = rl]
    ELSE Returned(rq, ExtractionResult(Len(rl)))

\* Failed with the file tried again.
FailedTriesAgain(r) ==
    /\ req' = [req EXCEPT ![r].pc = "extract"]
    /\ hist' = [hist EXCEPT ![r][req[r].i].status = "Failed"]

\* except Exception: the file is logged and dropped, the loop goes on.
Failed(r) ==
    /\ req' = [req EXCEPT ![r] = AfterFile(req[r], req[r].result_list)]
    /\ hist' = [hist EXCEPT ![r][req[r].i].status = "Failed"]

\* Lines 139-149: the extractor chosen by the extension, or "".
Extract(r) ==
    /\ req[r].kind = "embed" /\ req[r].pc = "extract"
    /\ LET fn == req[r].files[req[r].i]
       IN \/ /\ \E c \in IF Awaits(fn) THEN Contents(fn) ELSE {<<>>} :
                   req' = [req EXCEPT ![r].pc = "check", ![r].content = c]
             /\ hist' = [hist EXCEPT ![r][req[r].i].status = "extracted"]
          \/ /\ Awaits(fn)
             /\ Failed(r)
    /\ UNCHANGED <<registry, index, disk, started, q, p, tx>>

\* OnDuplicate skipping the one file instead of ending the request.
OnDuplicateSkips(rq) == AfterFile(rq, rq.result_list)

\* Lines 158-162: return HTTPErrorResponse(detail="Embedding present")
OnDuplicate(rq) == Returned(rq, EmbeddingPresent)

\* Lines 155-162: the duplicate lookup.
Check(r) ==
    /\ req[r].kind = "embed" /\ req[r].pc = "check"
    /\ \/ /\ FirstMatch(registry, Current(req[r]))
          /\ req' = [req EXCEPT ![r] = OnDuplicate(req[r])]
          /\ hist' = [hist EXCEPT ![r][req[r].i].status = "Rejected-Duplicate"]
       \/ /\ ~FirstMatch(registry, Current(req[r]))
          /\ req' = [req EXCEPT ![r].pc = "add"]
          /\ hist' = [hist EXCEPT ![r][req[r].i].status = "checked"]
       \/ Failed(r)
    /\ UNCHANGED <<registry, index, disk, started, q, p, tx>>

\* Lines 187-202 of add_document: split, then add to the collection.  The
\* collection refuses an empty list of ids.
AddToIndex(r) ==
    /\ req[r].kind = "embed" /\ req[r].pc = "add"
    /\ LET docs == create_documents(req[r].content)
       IN \/ /\ docs # <<>>
             /\ index' = CollectionAdd(index, EntriesOf(Current(req[r]), docs))
             /\ req' = [req EXCEPT ![r].pc = "insert"]
             /\ hist' = [hist EXCEPT ![r][req[r].i].added = TRUE]
          \/ /\ Failed(r)
             /\ UNCHANGED index
    /\ UNCHANGED <<registry, disk, started, q, p, tx>>

\* Insert with the index add undone when the commit fails.
InsertUndoesAdd(r) ==
    /\ req[r].kind = "embed" /\ req[r].pc = "insert"
    /\ \/ LET d == Current(req[r])
              rl == Append(req[r].result_list,
                           [filename |-> d.filename,
                            course_code |-> d.course_code,
                            content |-> req[r].content])
          IN /\ registry' = RegistryInsert(registry, d)
             /\ index' = index
             /\ req' = [req EXCEPT ![r] = AfterFile(req[r], rl)]
             /\ hist' = [hist EXCEPT ![r][req[r].i].committed = TRUE,
                                     ![r][req[r].i].status = "Accepted"]
       \/ /\ Failed(r)
          /\ index' = { e \in index :
                          \/ e.course_code # Current(req[r]).course_code
                          \/ e.source # Current(req[r]).filename }
          /\ UNCHANGED registry
    /\ UNCHANGED <<disk, started, q, p, tx>>

\* Lines 206-213 of add_document, then line 166.
Insert(r) ==
    /\ req[r].kind = "embed" /\ req[r].pc = "insert"
    /\ \/ LET d == Current(req[r])
              rl == Append(req[r].result_list,
                           [filename |-> d.filename,
                            course_code |-> d.course_code,
                            content |-> req[r].content])
          IN /\ registry' = RegistryInsert(registry, d)
             /\ req' = [req EXCEPT ![r] = AfterFile(req[r], rl)]
             /\ hist' = [hist EXCEPT ![r][req[r].i].committed = TRUE,
                                     ![r][req[r].i].status = "Accepted"]
       \/ /\ Failed(r)
          /\ UNCHANGED registry
    /\ UNCHANGED <<index, disk, started, q, p, tx>>

---------------------------------------------------------------------------
(* delete_document *)

\* GET /documents/delete/{course_code}/{filename}
DeleteDocument(r, cc, fn) ==
    /\ started < MaxRequests
    /\ Takes(r)
    /\ started' = started + 1
    /\ req' = [req EXCEPT ![r] =
                 [NoRequest EXCEPT !.kind = "delete", !.pc = "registry",
                                   !.course_code = cc, !.filename = fn]]
    /\ hist' = [hist EXCEPT ![r] = <<>>]
    /\ UNCHANGED <<registry, index, disk, q, p, tx>>

\* OnDeleteError with a try/except around each deletion: the next one runs.
OnDeleteErrorGoesOn(rq) ==
    IF rq.pc = "registry" THEN [rq EXCEPT !.pc = "index"]
    ELSE IF rq.pc = "index" THEN [rq EXCEPT !.pc = "disk"]
    ELSE Returned(rq, Literal("failed"))

\* Lines 311-312: except Exception: return "failed"
OnDeleteError(rq) == Returned(rq, Literal("failed"))

DeleteFailed(r) ==
    /\ req' = [req EXCEPT ![r] = OnDeleteError(req[r])]
    /\ UNCHANGED hist

\* Lines 304-305.
DeleteFromRegistry(r) ==
    /\ req[r].kind = "delete" /\ req[r].pc = "registry"
    /\ \/ /\ registry' = RegistryDelete(registry, req[r].filename)
          /\ req' = [req EXCEPT ![r].pc = "index"]
          /\ hist' = [hist EXCEPT ![r] = Append(@,
                     [step |-> "registry",
                      n |-> Cardinality(RowsNamed(registry, req[r].filename))])]
       \/ /\ DeleteFailed(r)
          /\ UNCHANGED registry
    /\ UNCHANGED <<index, disk, started, q, p, tx>>

\* Line 307: delete_document_from_vectorstore(filename).
DeleteFromIndex(r) ==
    /\ req[r].kind = "delete" /\ req[r].pc = "index"
    /\ \/ /\ index' = CollectionDelete(index, req[r].filename)
          /\ req' = [req EXCEPT ![r].pc = "disk"]
          /\ hist' = [hist EXCEPT ![r] = Append(@,
                     [step |-> "index",
                      n |-> Cardinality(Sourced(index, req[r].filename))])]
       \/ /\ DeleteFailed(r)
          /\ UNCHANGED index
    /\ UNCHANGED <<registry, disk, started, q, p, tx>>

\* Lines 308-310: os.remove raises when the file is missing (and may raise
\* for other reasons when it is there).
RemoveFile(r) ==
    /\ req[r].kind = "delete" /\ req[r].pc = "disk"
    /\ LET path == <<req[r].course_code, req[r].filename>>
       IN \/ /\ path \in disk
             /\ disk' = disk \ {path}
             /\ req' = [req EXCEPT ![r] = Returned(req[r], Literal("success"))]
             /\ hist' = [hist EXCEPT ![r] = Append(@, [step |-> "disk", n |-> 1])]
          \/ /\ DeleteFailed(r)
             /\ UNCHANGED disk
    /\ UNCHANGED <<registry, index, started, q, p, tx>>

---------------------------------------------------------------------------
(* Specifications *)

Step(r) ==
    \/ Extract(r)
    \/ Check(r)
    \/ AddToIndex(r)
    \/ Insert(r)
    \/ DeleteFromRegistry(r)
    \/ DeleteFromIndex(r)
    \/ RemoveFile(r)

Start(r) ==
    \/ \E files \in Batches : EmbedFile(r, files)
    \/ \E d \in DeleteArgs : DeleteDocument(r, d.course_code, d.filename)

\* Requests arrive at any time and are served concurrently.
Next == \E r \in Slots : (started < MaxConcurrent /\ Start(r)) \/ Step(r)

Spec == Init /\ [][Next]_vars

\* No request is in flight.
Quiet == \A r \in Slots : SlotFree(r)

\* Requests run one at a time: a request starts only when none is in flight.
SeqNext == \E r \in Slots : (Quiet /\ Start(r)) \/ Step(r)

SeqSpec == Init /\ [][SeqNext]_vars

\* A handler that was started runs on: its next step is eventually taken
\* (the event loop resumes a coroutine whose await completed, and a thread
\* of the pool is scheduled).
FairSpec == Spec /\ \A r \in Slots : WF_vars(Step(r))

\* A registry or index operation of request r raises in this step.
StoreRaises(r) ==
    \/ /\ req[r].kind = "embed" /\ req[r].pc \in {"check", "add", "insert"}
       /\ hist'[r][req[r].i].status = "Failed"
    \/ /\ req[r].kind = "delete" /\ req[r].pc \in {"registry", "index"}
       /\ req'[r].result = Literal("failed")

\* Uploads of files that have an extractor.
CleanStart(r) ==
    \/ \E files \in { b \in Batches : \A j \in DOMAIN b : Awaits(b[j]) } :
          EmbedFile(r, files)
    \/ \E d \in DeleteArgs : DeleteDocument(r, d.course_code, d.filename)

\* Requests one at a time, every file with extracted text (or an extractor
\* that raises), and no registry or index operation raising; the disk
\* removal may fail.
CleanNext ==
    \E r \in Slots : (Quiet /\ CleanStart(r)) \/ (Step(r) /\ ~StoreRaises(r))

CleanSpec == Init /\ [][CleanNext]_vars

\* Uploads and deletions of the one document "CSCI101LectureNotes.pdf", one
\* request at a time.
LectureStart(r) ==
    \/ \E files \in UNION { [1..n -> {FileLecture}] : n \in 1..MaxBatch } :
          EmbedFile(r, files)
    \/ DeleteDocument(r, ParseFilename(FileLecture).course_code,
                         ParseFilename(FileLecture).filename)

LectureNext == \E r \in Slots : (Quiet /\ LectureStart(r)) \/ Step(r)

LectureSpec == Init /\ [][LectureNext]_vars

---------------------------------------------------------------------------
(* query: the collection is an input.  q.dist[id] is the distance, in      *)
(* tenths, between the embedding of the message and that of entry id.      *)

Dists == {2, 5, 9, 10, 12}

\* Uploads the collection may hold: two names in one course, one of them in
\* a second course too.
QFiles == { FileA, FileB, FileMathA }

Courses == { ParseFilename(f).course_code : f \in QFiles }

\* The collections a set of accepted uploads leaves behind.
Collections ==
    { UNION { EntriesOf(ParseFilename(f), create_documents(c[f])) : f \in U } :
        U \in SUBSET QFiles, c \in [QFiles -> { <<300>>, <<500, 400>> }] }

InScope(idx, course_id) == { e \in idx : e.course_code = course_id }

\* QueryResults without the where filter.
QueryResultsAnyCourse(idx, dist, course_id) ==
    IF idx = {} THEN {<<>>}
    ELSE { <<e>> : e \in { x \in idx : \A y \in idx : dist[x.id] <= dist[y.id] } }

\* self._collection.query(query_texts=[message], n_results=1,
\*                        where={"course_code": course_id}):
\* the nearest entry of the scope (any of them on a tie), or nothing.
QueryResults(idx, dist, course_id) ==
    LET scope == InScope(idx, course_id)
    IN IF scope = {} THEN {<<>>}
       ELSE { <<e>> : e \in { x \in scope :
                                \A y \in scope : dist[x.id] <= dist[y.id] } }

\* ("", "")
NoMatch == << <<>>, <<>> >>

\* query with the threshold included.
queryInclusive(results, dist) ==
    IF Len(results) # 0 /\ dist[results[1].id] <= Threshold
    THEN <<results[1].document, results[1].source>>
    ELSE NoMatch

\* Lines 228-236.
query(results, dist) ==
    IF Len(results) # 0 /\ dist[results[1].id] < Threshold
    THEN <<results[1].document, results[1].source>>
    ELSE NoMatch

QInit ==
    /\ registry = EmptyBag
    /\ index \in { c \in Collections : Cardinality(c) <= MaxEntries }
    /\ disk = Paths
    /\ req = [r \in Slots |-> NoRequest]
    /\ started = 0
    /\ hist = [r \in Slots |-> <<>>]
    /\ q \in { [NoQuery EXCEPT !.dist = d] : d \in [{ e.id : e \in index } -> Dists] }
    /\ p = NoParse
    /\ tx = NoText

Query(course_id) ==
    /\ ~q.asked
    /\ \E results \in QueryResults(index, q.dist, course_id) :
          q' = [q EXCEPT !.course_id = course_id,
                         !.result = query(results, q.dist),
                         !.asked = TRUE]
    /\ UNCHANGED <<registry, index, disk, req, started, hist, p, tx>>

QNext == \E course_id \in Courses : Query(course_id)

QuerySpec == QInit /\ [][QNext]_vars

---------------------------------------------------------------------------
(* The filename convention: the filename is an input. *)

Names == UNION { [1..n -> {"a", "b"}] : n \in 0..MaxNameLen }

PInit ==
    /\ registry = EmptyBag
    /\ index = {}
    /\ disk = Paths
    /\ req = [r \in Slots |-> NoRequest]
    /\ started = 0
    /\ hist = [r \in Slots |-> <<>>]
    /\ q = NoQuery
    /\ p \in { [NoParse EXCEPT !.filename = f] : f \in Names }
    /\ tx = NoText

\* Lines 133-136.
Parse ==
    /\ ~p.parsed
    /\ p' = [p EXCEPT !.result_dict = ParseFilename(p.filename),
                      !.parsed = TRUE]
    /\ UNCHANGED <<registry, index, disk, req, started, hist, q, tx>>

ParseSpec == PInit /\ [][Parse]_vars

---------------------------------------------------------------------------
(* The text splitter: the text is an input. *)

\* Word lengths: a word that fits the overlap with its space, and two that
\* do not.
WordLens == {199, 300, 500}

Texts == UNION { [1..n -> WordLens] : n \in 1..MaxWords }

TInit ==
    /\ registry = EmptyBag
    /\ index = {}
    /\ disk = Paths
    /\ req = [r \in Slots |-> NoRequest]
    /\ started = 0
    /\ hist = [r \in Slots |-> <<>>]
    /\ q = NoQuery
    /\ p = NoParse
    /\ tx \in { [NoText EXCEPT !.text = x] : x \in Texts }

\* Line 187.
Split ==
    /\ ~tx.split
    /\ tx' = [tx EXCEPT !.spans = split_text(tx.text),
                        !.docs = create_documents(tx.text),
                        !.split = TRUE]
    /\ UNCHANGED <<registry, index, disk, req, started, hist, q, p>>

ChunkSpec == TInit /\ [][Split]_vars

---------------------------------------------------------------------------
(* Properties *)

\* The registry holds a row for (cc, dn).
HasRecord(reg, cc, dn) ==
    \E x \in BagToSet(reg) : x.course_code = cc /\ x.document_name = dn

\* The collection holds an entry of (cc, dn).
HasEntries(idx, cc, dn) ==
    \E e \in idx : e.course_code = cc /\ e.source = dn

\* Request r takes a step of its handler (not the start of a new request).
Moves(r) == req'[r] # req[r] /\ started' = started

\* The file of position j of the batch of request r.
FileAt(r, j) == ParseFilename(req[r].files[j])

\* C1: when an upload whose first file is already registered is run after
\* the run that registered it, no step of it changes the registry or the
\* index, it adds and commits nothing, and its duplicate lookup ends the
\* request with the "Embedding present" error (unless the lookup raises).
C1_SecondRunRejected ==
    [][\A r \in Slots :
         ( /\ req[r].kind = "embed"
           /\ req[r].pc \in {"extract", "check"}
           /\ req[r].i = 1
           /\ HasRecord(registry, FileAt(r, 1).course_code, FileAt(r, 1).filename)
           /\ Moves(r) )
         => /\ registry' = registry
            /\ index' = index
            /\ ~hist'[r][1].added /\ ~hist'[r][1].committed
            /\ hist'[r][1].status \in {"extracted", "Rejected-Duplicate", "Failed"}
            /\ (req[r].pc = "check" /\ hist'[r][1].status # "Failed")
                 => /\ req'[r].pc = "done"
                    /\ req'[r].result = EmbeddingPresent
                    /\ hist'[r][1].status = "Rejected-Duplicate"]_vars

\* A second run has returned the duplicate error at its first file, and the
\* registry and the index still hold what the first run stored.
C1_Witness ==
    \E r \in Slots :
        /\ req[r].kind = "embed" /\ req[r].pc = "done"
        /\ req[r].result = EmbeddingPresent
        /\ hist[r][1].status = "Rejected-Duplicate"
        /\ started = 2
        /\ \E x \in BagToSet(registry) :
              /\ CopiesIn(x, registry) = 1
              /\ HasEntries(index, x.course_code, x.document_name)

\* No pair has two rows.
UniquePairs == \A x \in BagToSet(registry) : CopiesIn(x, registry) <= 1

\* C2: the registry never holds two rows for one (course_code,
\* document_name) pair, and the index add of add_document is never performed
\* for a pair that has a row.
C2_UniquePair ==
    /\ []UniquePairs
    /\ [][\A r \in Slots :
            (req[r].kind = "embed" /\ req[r].pc = "add" /\ req'[r].pc = "insert")
            => ~HasRecord(registry, FileAt(r, req[r].i).course_code,
                          FileAt(r, req[r].i).filename)]_vars

\* C3: the registry insert of add_document is unconditional: a request that
\* passed the duplicate lookup adds its row whatever the registry holds by
\* then, so two requests that both passed the lookup for one pair leave two
\* rows.
C3_RaceInsertsTwice ==
    [][\A r \in Slots :
         ( /\ req[r].kind = "embed" /\ req[r].pc = "insert"
           /\ Moves(r)
           /\ hist'[r][req[r].i].status = "Accepted" )
         => CopiesIn(Row(FileAt(r, req[r].i)), registry')
              = CopiesIn(Row(FileAt(r, req[r].i)), registry) + 1]_vars

\* Two single-file uploads were both accepted and the registry holds two rows
\* for one pair.
C3_Witness ==
    /\ \A r \in Slots :
          /\ req[r].kind = "embed" /\ req[r].pc = "done"
          /\ req[r].result = ExtractionResult(1)
          /\ Len(hist[r]) = 1 /\ hist[r][1].status = "Accepted"
    /\ \E x \in BagToSet(registry) : CopiesIn(x, registry) = 2

\* The positions of the batch of r whose index add and registry commit both
\* completed.
Stored(r) == { j \in DOMAIN hist[r] : hist[r][j].added /\ hist[r][j].committed }

\* C4: an upload that returns a count went through every file of the batch,
\* each ending Accepted or Failed, and the count is the number of files whose
\* index add and registry commit both completed; a file that fails changes
\* neither what became of the other files nor the list of accepted ones.
C4_FailureSkipsOneFile ==
    /\ [](\A r \in Slots :
            (req[r].kind = "embed" /\ req[r].pc = "done"
               /\ req[r].result.type = "ExtractionResult")
            => /\ \A j \in DOMAIN hist[r] :
                    /\ hist[r][j].status \in {"Accepted", "Failed"}
                    /\ hist[r][j].status = "Accepted" <=> j \in Stored(r)
               /\ req[r].result.count = Cardinality(Stored(r)))
    /\ [][\A r \in Slots :
            ( /\ req[r].kind = "embed" /\ Moves(r)
              /\ hist'[r][req[r].i].status = "Failed" )
            => /\ \A j \in DOMAIN hist[r] : j # req[r].i => hist'[r][j] = hist[r][j]
               /\ registry' = registry /\ index' = index
               /\ IF req[r].i < Len(req[r].files)
                  THEN /\ req'[r].pc = "extract" /\ req'[r].i = req[r].i + 1
                       /\ req'[r].result_list = req[r].result_list
                  ELSE /\ req'[r].pc = "done"
                       /\ req'[r].result = ExtractionResult(Len(req[r].result_list))]_vars

\* A batch of two returned the count 1: its first file failed after the index
\* add, its second was accepted.
C4_Witness ==
    \E r \in Slots :
        /\ req[r].kind = "embed" /\ req[r].pc = "done"
        /\ req[r].result = ExtractionResult(1)
        /\ Len(hist[r]) = 2
        /\ hist[r][1].status = "Failed" /\ hist[r][1].added
        /\ hist[r][2].status = "Accepted"

\* C5: when the duplicate lookup of the k-th file finds a row, the request
\* ends there with the "Embedding present" error: the registry and the index
\* are left as they are, the files after k stay untouched, and each file
\* before k that was accepted still has its row and its entries.
C5_DuplicateEndsBatch ==
    /\ [](\A r \in Slots :
            (req[r].kind = "embed" /\ req[r].pc = "done"
               /\ req[r].result = EmbeddingPresent)
            => \E k \in DOMAIN hist[r] :
                 /\ hist[r][k].status = "Rejected-Duplicate"
                 /\ \A j \in DOMAIN hist[r] : j > k => hist[r][j] = Untouched)
    /\ [][\A r \in Slots :
            ( /\ req[r].kind = "embed" /\ req[r].pc = "check"
              /\ HasRecord(registry, FileAt(r, req[r].i).course_code,
                           FileAt(r, req[r].i).filename)
              /\ Moves(r)
              /\ hist'[r][req[r].i].status # "Failed" )
            => /\ req'[r].pc = "done"
               /\ req'[r].result = EmbeddingPresent
               /\ registry' = registry /\ index' = index
               /\ \A j \in DOMAIN hist[r] :
                    /\ j # req[r].i => hist'[r][j] = hist[r][j]
                    /\ j > req[r].i => hist'[r][j] = Untouched
                    /\ (j < req[r].i /\ hist[r][j].status = "Accepted")
                         => /\ HasRecord(registry', FileAt(r, j).course_code,
                                         FileAt(r, j).filename)
                            /\ HasEntries(index', FileAt(r, j).course_code,
                                          FileAt(r, j).filename)]_vars

\* A batch of two stopped at its second file: the first was accepted and is
\* still stored, the second met a row of an earlier upload.
C5_Witness ==
    \E r \in Slots :
        /\ req[r].kind = "embed" /\ req[r].pc = "done"
        /\ req[r].result = EmbeddingPresent
        /\ Len(hist[r]) = 2
        /\ hist[r][1].status = "Accepted"
        /\ hist[r][2].status = "Rejected-Duplicate"
        /\ Cardinality(BagToSet(registry)) = 2

\* The least distance of the scope.
Nearest(scope, dist) ==
    { x \in scope : \A y \in scope : dist[x.id] <= dist[y.id] }

\* C6: query returns the text and source of a nearest entry of the scope
\* exactly when the scope is not empty and that distance is below 1.0, and
\* ("", "") in every other case; with entries at 0.2, 0.5 and 0.9 it returns
\* the one at 0.2.
C6_QueryThreshold ==
    q.asked =>
        LET scope == InScope(index, q.course_id)
            near == Nearest(scope, q.dist)
        IN /\ IF scope # {} /\ \E e \in near : q.dist[e.id] < Threshold
              THEN \E e \in near : q.result = <<e.document, e.source>>
              ELSE q.result = NoMatch
           /\ (q.result # NoMatch) <=>
                (scope # {} /\ \A e \in near : q.dist[e.id] < Threshold)
           /\ { q.dist[e.id] : e \in scope } = {2, 5, 9}
                => \E e \in scope : /\ q.dist[e.id] = 2
                                    /\ q.result = <<e.document, e.source>>

\* Three entries of the scope at 0.2, 0.5 and 0.9, and the one at 0.2 returned.
C6_Witness ==
    /\ q.asked
    /\ Cardinality(InScope(index, q.course_id)) = 3
    /\ { q.dist[e.id] : e \in InScope(index, q.course_id) } = {2, 5, 9}
    /\ \E e \in InScope(index, q.course_id) :
          q.dist[e.id] = 2 /\ q.result = <<e.document, e.source>>

\* C7: what query returns is the text and the source of an entry whose
\* course_code is the scope asked for, and that entry is a nearest one of the
\* scope, however near the entries of other courses are.
C7_QueryScoped ==
    (q.asked /\ q.result # NoMatch) =>
        \E e \in index :
            /\ e.course_code = q.course_id
            /\ q.result = <<e.document, e.source>>
            /\ \A y \in index :
                  y.course_code = q.course_id => q.dist[e.id] <= q.dist[y.id]

\* An entry of the scope was returned while an entry of another course, with
\* another text, was nearer to the message.
C7_Witness ==
    /\ q.asked /\ q.result # NoMatch
    /\ \E e \in InScope(index, q.course_id), o \in index :
          /\ q.result = <<e.document, e.source>>
          /\ o.course_code # q.course_id
          /\ o.document # e.document
          /\ q.dist[o.id] < q.dist[e.id]

\* The distances of a message whose embedding is nearest to entry e.
NearTo(idx, e) == [id \in { x.id : x \in idx } |-> IF id = e.id THEN 2 ELSE 9]

\* No query on collection idx returns a chunk of source fn.
NeverReturned(idx, fn) ==
    \A c \in Courses, e \in idx :
        \A results \in QueryResults(idx, NearTo(idx, e), c) :
            query(results, NearTo(idx, e))[2] # fn

\* The names of the steps a deletion completed, in order.
StepsDone(r) == [j \in DOMAIN hist[r] |-> hist[r][j].step]

\* C8: when delete_document(course_code, filename) returns after its registry
\* and index deletions, with requests run one at a time, the index holds no
\* entry whose source is filename, no query returns a chunk of it, and the
\* registry holds no row with that document_name.
C8_DeleteRemovesAll ==
    [][\A r \in Slots :
         ( /\ req[r].kind = "delete" /\ req[r].pc = "disk"
           /\ req'[r].pc = "done" )
         => /\ Sourced(index', req[r].filename) = {}
            /\ RowsNamed(registry', req[r].filename) = {}
            /\ NeverReturned(index', req[r].filename)
            /\ StepsDone(r) = <<"registry", "index">>]_vars

\* A deletion returned "success" after removing a row and two entries (the
\* document had been accepted), and another document is still stored.
C8_Witness ==
    \E r \in Slots :
        /\ req[r].kind = "delete" /\ req[r].pc = "done"
        /\ req[r].result = Literal("success")
        /\ Len(hist[r]) = 3
        /\ hist[r][1].n >= 1 /\ hist[r][2].n >= 2
        /\ index # {} /\ registry # EmptyBag

\* s is the beginning of t.
IsPrefix(s, t) == Len(s) <= Len(t) /\ s = SubSeq(t, 1, Len(s))

\* C9: delete_document deletes from the registry, then from the index, then
\* from the disk; it returns "success" only after all three; a step that
\* raises ends the request with "failed", with no later step attempted and
\* nothing put back: when the disk removal fails, the rows and entries of the
\* filename stay deleted.
C9_DeleteOrderNoUndo ==
    /\ [](\A r \in Slots :
            req[r].kind = "delete" =>
              /\ IsPrefix(StepsDone(r), <<"registry", "index", "disk">>)
              /\ req[r].pc \in {"registry", "index", "disk", "done"}
              /\ req[r].pc # "done" =>
                   Len(hist[r]) = (CASE req[r].pc = "registry" -> 0
                                     [] req[r].pc = "index" -> 1
                                     [] req[r].pc = "disk" -> 2)
              /\ req[r].pc = "done" =>
                   /\ req[r].result \in {Literal("success"), Literal("failed")}
                   /\ req[r].result = Literal("success") <=> Len(hist[r]) = 3)
    /\ [][\A r \in Slots :
            ( /\ req[r].kind = "delete" /\ Moves(r)
              /\ req'[r].result = Literal("failed") )
            => /\ req'[r].pc = "done"
               /\ hist'[r] = hist[r]
               /\ registry' = registry /\ index' = index /\ disk' = disk
               /\ req[r].pc = "disk" =>
                    /\ RowsNamed(registry', req[r].filename) = {}
                    /\ Sourced(index', req[r].filename) = {}]_vars

\* A deletion returned "failed" at the disk removal, after it had removed a
\* row and entries, which are still gone.
C9_Witness ==
    \E r \in Slots :
        /\ req[r].kind = "delete" /\ req[r].pc = "done"
        /\ req[r].result = Literal("failed")
        /\ StepsDone(r) = <<"registry", "index">>
        /\ hist[r][1].n >= 1 /\ hist[r][2].n >= 1
        /\ registry = EmptyBag /\ index = {}

\* C10: course_code is the first 8 characters of the filename (all of it when
\* it is shorter), document_name is the rest, and the two joined give the
\* filename back.
C10_ParseSplitsAtEight ==
    p.parsed =>
        LET cc == p.result_dict.course_code
            dn == p.result_dict.filename
        IN /\ cc \o dn = p.filename
           /\ Len(cc) = Min(CodeLen, Len(p.filename))
           /\ Len(dn) = Max(0, Len(p.filename) - CodeLen)
           /\ \A j \in 1..Len(cc) : cc[j] = p.filename[j]
           /\ \A j \in 1..Len(dn) : dn[j] = p.filename[CodeLen + j]

\* A filename longer than 8 characters was split into two non-empty parts.
C10_Witness ==
    /\ p.parsed
    /\ Len(p.filename) > CodeLen
    /\ Len(p.result_dict.course_code) = CodeLen
    /\ Len(p.result_dict.filename) >= 1

\* The pair the file "CSCI101LectureNotes.pdf" is stored under, and the id of
\* its first chunk.
LectureStored ==
    [course_code |-> <<"C", "S", "C", "I", "1", "0", "1", "L">>,
     document_name |-> <<"e", "c", "t", "u", "r", "e", "N", "o", "t", "e",
                         "s", ".", "p", "d", "f">>,
     id |-> <<"C", "S", "C", "I", "1", "0", "1", "L", "-", "e", "c", "t", "u",
              "r", "e", "N", "o", "t", "e", "s", ".", "p", "d", "f", "-", "0">>]

\* The pair a course code of 7 characters would give.
LectureSeven ==
    [course_code |-> <<"C", "S", "C", "I", "1", "0", "1">>,
     document_name |-> <<"L", "e", "c", "t", "u", "r", "e", "N", "o", "t",
                         "e", "s", ".", "p", "d", "f">>]

\* Request r accepts the file "CSCI101LectureNotes.pdf" in this step.
AcceptsLecture(r) ==
    /\ req[r].kind = "embed" /\ req[r].pc = "insert"
    /\ req[r].files[req[r].i] = FileLecture
    /\ Moves(r)
    /\ hist'[r][req[r].i].status = "Accepted"

\* C11 (as the code has it): an accepted upload of "CSCI101LectureNotes.pdf"
\* adds a registry row with course_code "CSCI101L" and document_name
\* "ectureNotes.pdf", its chunks are in the index under that course_code and
\* source with ids "CSCI101L-ectureNotes.pdf-<i>", and nothing is stored under
\* ("CSCI101", "LectureNotes.pdf").
C11_LectureNotesAtEight ==
    [][\A r \in Slots :
         AcceptsLecture(r) =>
           /\ CopiesIn([course_code |-> LectureStored.course_code,
                        document_name |-> LectureStored.document_name], registry')
                = CopiesIn([course_code |-> LectureStored.course_code,
                            document_name |-> LectureStored.document_name],
                           registry) + 1
           /\ \E e \in index' :
                 /\ e.id = LectureStored.id
                 /\ e.course_code = LectureStored.course_code
                 /\ e.source = LectureStored.document_name
           /\ ~HasRecord(registry', LectureSeven.course_code,
                         LectureSeven.document_name)
           /\ ~HasEntries(index', LectureSeven.course_code,
                          LectureSeven.document_name)]_vars

\* The upload was accepted and is stored under ("CSCI101L", "ectureNotes.pdf").
C11_Witness ==
    /\ \E r \in Slots :
          /\ req[r].kind = "embed" /\ req[r].pc = "done"
          /\ req[r].result = ExtractionResult(1)
          /\ hist[r][1].status = "Accepted"
    /\ HasRecord(registry, LectureStored.course_code, LectureStored.document_name)
    /\ \E e \in index : e.id = LectureStored.id

\* C11 (as stated): an accepted upload of "CSCI101LectureNotes.pdf" is
\* registered and indexed under course_code "CSCI101" and document_name
\* "LectureNotes.pdf".
C11_LectureNotesAtSeven ==
    [][\A r \in Slots :
         AcceptsLecture(r) =>
           /\ HasRecord(registry', LectureSeven.course_code,
                        LectureSeven.document_name)
           /\ HasEntries(index', LectureSeven.course_code,
                         LectureSeven.document_name)]_vars

\* The characters of words a..b of a text joined by single spaces: a word is
\* given by its length, a space by 0.
Chars(text, a, b) ==
    IF a > b THEN <<>>
    ELSE [i \in 1..(2 * (b - a) + 1) |->
            IF i % 2 = 1 THEN text[a + (i - 1) \div 2] ELSE 0]

RECURSIVE CharCount(_)
\* len() of a string given as words and spaces.
CharCount(str) ==
    IF str = <<>> THEN 0
    ELSE (IF Head(str) = 0 THEN 1 ELSE Head(str)) + CharCount(Tail(str))

\* Chunk j as a string.
Chunk(j) == Chars(tx.text, tx.spans[j][1], tx.spans[j][2])

\* What chunk j and chunk j + 1 have in common: the end of the one that is
\* the beginning of the other.
Overlap(j) == Chars(tx.text, tx.spans[j + 1][1], tx.spans[j][2])

\* Chunk j without what it has in common with chunk j - 1.
Fresh(j) ==
    IF j = 1 THEN Chunk(j)
    ELSE SubSeq(Chunk(j), Len(Overlap(j - 1)) + 1, Len(Chunk(j)))

RECURSIVE Joined(_)
\* Chunks j, j + 1, .. joined with the overlaps removed.
Joined(j) == IF j > Len(tx.spans) THEN <<>> ELSE Fresh(j) \o Joined(j + 1)

IsWord(x) == x # 0

\* The boundaries between two chunks that have nothing in common.
Cuts == { j \in 1..(Len(tx.spans) - 1) : Overlap(j) = <<>> }

\* C12 (as the code has it): a text of words separated by single spaces is
\* split into at least one chunk; the chunks are non-empty, in the order of
\* the text, of at most 800 characters, each a run of whole words; consecutive
\* chunks have at most 200 characters in common; and the chunks joined with
\* the overlaps removed are the text without the space at each boundary where
\* the two chunks have nothing in common.
C12_ChunksOverlapAtMost ==
    tx.split =>
        LET n == Len(tx.spans)
        IN /\ n >= 1 /\ Len(tx.docs) = n
           /\ tx.spans[1][1] = 1 /\ tx.spans[n][2] = Len(tx.text)
           /\ \A j \in 1..n :
                 /\ tx.spans[j][1] <= tx.spans[j][2]
                 /\ tx.docs[j] # <<>>
                 /\ tx.docs[j] = SelectSeq(Chunk(j), IsWord)
                 /\ CharCount(Chunk(j)) \in 1..chunk_size
           /\ \A j \in 1..(n - 1) :
                 /\ tx.spans[j][1] < tx.spans[j + 1][1]
                 /\ tx.spans[j][2] < tx.spans[j + 1][2]
                 /\ tx.spans[j + 1][1] <= tx.spans[j][2] + 1
                 /\ CharCount(Overlap(j)) <= chunk_overlap
           /\ SelectSeq(Joined(1), IsWord) = tx.text
           /\ CharCount(Joined(1))
                = CharCount(Chars(tx.text, 1, Len(tx.text))) - Cardinality(Cuts)

\* A text was split into three chunks or more, with an overlap of fewer than
\* 200 characters at one boundary.
C12_Witness ==
    /\ tx.split
    /\ Len(tx.spans) >= 3
    /\ \E j \in 1..(Len(tx.spans) - 1) :
          CharCount(Overlap(j)) \in 1..(chunk_overlap - 1)

\* C12 (as stated): the chunks are non-empty, of at most 800 characters,
\* consecutive chunks have exactly 200 characters in common, and the chunks
\* joined with the overlaps removed are the text.
C12_ChunksOverlapExactly ==
    tx.split =>
        /\ \A j \in 1..Len(tx.spans) : CharCount(Chunk(j)) \in 1..chunk_size
        /\ \A j \in 1..(Len(tx.spans) - 1) :
              CharCount(Overlap(j)) = chunk_overlap
        /\ Joined(1) = Chars(tx.text, 1, Len(tx.text))

\* C13: a file's registry row is committed only after its index add; when
\* the commit fails after the add, the file is Failed and not counted, nothing
\* is undone, and the entries of the pair stay in the index with no row for
\* it; a later duplicate lookup for a pair with entries and no row does not
\* reject the file.
C13_OrphansAfterFailedCommit ==
    /\ [](\A r \in Slots : req[r].kind = "embed" =>
            \A j \in DOMAIN hist[r] : hist[r][j].committed => hist[r][j].added)
    /\ [][\A r \in Slots :
            ( /\ req[r].kind = "embed" /\ req[r].pc = "insert"
              /\ Moves(r)
              /\ hist'[r][req[r].i].status = "Failed" )
            => /\ hist'[r][req[r].i].added /\ ~hist'[r][req[r].i].committed
               /\ index' = index /\ registry' = registry
               /\ HasEntries(index', FileAt(r, req[r].i).course_code,
                             FileAt(r, req[r].i).filename)
               /\ ~HasRecord(registry', FileAt(r, req[r].i).course_code,
                             FileAt(r, req[r].i).filename)
               /\ IF req[r].i < Len(req[r].files)
                  THEN req'[r].result_list = req[r].result_list
                  ELSE req'[r].result = ExtractionResult(Len(req[r].result_list))]_vars
    /\ [][\A r \in Slots :
            ( /\ req[r].kind = "embed" /\ req[r].pc = "check"
              /\ Moves(r)
              /\ HasEntries(index, FileAt(r, req[r].i).course_code,
                            FileAt(r, req[r].i).filename)
              /\ ~HasRecord(registry, FileAt(r, req[r].i).course_code,
                            FileAt(r, req[r].i).filename) )
            => /\ hist'[r][req[r].i].status \in {"checked", "Failed"}
               /\ req'[r].result # EmbeddingPresent]_vars

\* The first file of a batch failed at the commit, after its index add; the
\* second file has the same name and passed the duplicate lookup, while the
\* entries of the first are in the index and the registry has no row.
C13_Witness ==
    \E r \in Slots :
        /\ req[r].kind = "embed" /\ req[r].pc = "add" /\ req[r].i = 2
        /\ req[r].files[1] = req[r].files[2]
        /\ hist[r][1].status = "Failed"
        /\ hist[r][1].added /\ ~hist[r][1].committed
        /\ hist[r][2].status = "checked"
        /\ HasEntries(index, FileAt(r, 1).course_code, FileAt(r, 1).filename)
        /\ registry = EmptyBag

\* C14: each step of delete_document(course_code, filename) changes one
\* store only.  The registry step removes every row whose document_name is
\* filename, in whatever course, and leaves every other row as it is; the
\* index step removes every entry whose source is filename, in whatever
\* course, and leaves every other entry as it is, and when no entry matches
\* it completes and changes nothing; the disk step removes at most the path
\* course_code/filename; a step that raises changes nothing.
C14_DeleteFrame ==
    [][\A r \in Slots :
         (req[r].kind = "delete" /\ Moves(r)) =>
            /\ req[r].pc = "registry" =>
                  /\ index' = index /\ disk' = disk
                  /\ \A x \in BagToSet(registry) :
                        CopiesIn(x, registry') =
                          IF x.document_name = req[r].filename
                             /\ req'[r].pc = "index"
                          THEN 0 ELSE CopiesIn(x, registry)
                  /\ BagToSet(registry') \subseteq BagToSet(registry)
            /\ req[r].pc = "index" =>
                  /\ registry' = registry /\ disk' = disk
                  /\ index' \subseteq index
                  /\ \A e \in index :
                        e \in index' <=>
                          (e.source # req[r].filename \/ req'[r].pc = "done")
                  /\ (req'[r].pc = "disk" /\ Sourced(index, req[r].filename) = {})
                        => /\ index' = index
                           /\ hist'[r][2] = [step |-> "index", n |-> 0]
            /\ req[r].pc = "disk" =>
                  /\ registry' = registry /\ index' = index
                  /\ disk' \subseteq disk
                  /\ disk \ disk' \subseteq
                        { <<req[r].course_code, req[r].filename>> }
            /\ req'[r].result = Literal("failed") =>
                  registry' = registry /\ index' = index /\ disk' = disk]_vars

\* A deletion removed the rows of its filename in two courses and the entries
\* of both, and the row and the entries of a document with another name are
\* still there.
C14_Witness ==
    \E r \in Slots :
        /\ req[r].kind = "delete" /\ req[r].pc = "disk"
        /\ hist[r][1].n = 2 /\ hist[r][2].n >= 2
        /\ RowsNamed(registry, req[r].filename) = {}
        /\ Sourced(index, req[r].filename) = {}
        /\ registry # EmptyBag /\ index # {}

\* A deletion whose filename had no entry in the index completed its index
\* step and went on to "success".
C14_NoMatchCompletes ==
    \E r \in Slots :
        /\ req[r].kind = "delete" /\ req[r].pc = "done"
        /\ req[r].result = Literal("success")
        /\ hist[r][2].n = 0

\* Request r is at a file whose name ends in neither ".pdf" nor ".pptx".
AtPlaceholder(r) ==
    /\ req[r].kind = "embed"
    /\ req[r].pc \in {"check", "add", "insert"}
    /\ ~Awaits(req[r].files[req[r].i])

\* C15: a file whose name ends in neither ".pdf" nor ".pptx" has the content
\* "" and goes on as any other file: once past the duplicate lookup its
\* index add can complete, after which its registry insert makes it Accepted
\* and counted.
C15_PlaceholderAccepted ==
    \A r \in Slots :
        AtPlaceholder(r) =>
           /\ req[r].content = <<>>
           /\ req[r].pc = "add" =>
                 ENABLED (AddToIndex(r) /\ req'[r].pc = "insert")
           /\ req[r].pc = "insert" =>
                 ENABLED (Insert(r) /\ hist'[r][req[r].i].status = "Accepted")

\* A file whose name ends in neither ".pdf" nor ".pptx" is never Accepted: a
\* request that returns a count was Failed at each such file, after the
\* duplicate lookup and with nothing written.
PlaceholderFails ==
    \A r \in Slots :
        /\ AtPlaceholder(r) => req[r].pc # "insert"
        /\ (req[r].kind = "embed" /\ req[r].pc = "extract" /\ req[r].i > 1
              /\ ~Awaits(req[r].files[req[r].i - 1]))
             => /\ hist[r][req[r].i - 1].status = "Failed"
                /\ ~hist[r][req[r].i - 1].added
                /\ ~hist[r][req[r].i - 1].committed

Terminal == {"Accepted", "Rejected-Duplicate", "Failed"}

\* What became of the files of the batch of request r, which is at file i or
\* has returned: the files gone through are Accepted (added, committed) or
\* Failed (not committed), or the last of them Rejected-Duplicate (nothing
\* written) when the request returned the error; the others were not
\* started.
BatchStates(r) ==
    \A j \in DOMAIN hist[r] :
        /\ hist[r][j].status = "Accepted"
              <=> (hist[r][j].added /\ hist[r][j].committed)
        /\ hist[r][j].status = "Failed" => ~hist[r][j].committed
        /\ hist[r][j].status = "Rejected-Duplicate"
              => /\ ~hist[r][j].added /\ ~hist[r][j].committed
                 /\ req[r].pc = "done" /\ req[r].result = EmbeddingPresent
                 /\ \A k \in DOMAIN hist[r] : k > j => hist[r][k] = Untouched
        /\ req[r].pc = "done"
              => hist[r][j].status \in Terminal \cup {"none"}
        /\ (req[r].pc = "done" /\ req[r].result.type = "ExtractionResult")
              => hist[r][j].status \in {"Accepted", "Failed"}
        /\ req[r].pc # "done"
              => /\ j < req[r].i => hist[r][j].status \in {"Accepted", "Failed"}
                 /\ j > req[r].i => hist[r][j] = Untouched
                 /\ j = req[r].i => hist[r][j].status \notin Terminal

\* C16: an embed_file request that was started returns; until it does it
\* goes through its files in order, each once: a file that reached Accepted,
\* Rejected-Duplicate or Failed stays as it is; each file gone through is in
\* one of the three, by what was written for it; and the count returned is
\* the number of Accepted files, none of them Failed or Rejected-Duplicate.
C16_EmbedFileReturns ==
    /\ [](\A r \in Slots : req[r].kind = "embed" => BatchStates(r))
    /\ [](\A r \in Slots :
            (req[r].kind = "embed" /\ req[r].pc = "done"
               /\ req[r].result.type = "ExtractionResult")
            => req[r].result.count =
                 Cardinality({ j \in DOMAIN hist[r] :
                                 hist[r][j].status = "Accepted" }))
    /\ [][\A r \in Slots :
            (req[r].kind = "embed" /\ started' = started)
            => /\ req[r].pc = "done" => req'[r] = req[r]
               /\ req[r].pc # "done" =>
                     \/ req'[r].pc = "done"
                     \/ req'[r].i \in {req[r].i, req[r].i + 1}
               /\ \A j \in DOMAIN hist[r] :
                     hist[r][j].status \in Terminal => hist'[r][j] = hist[r][j]]_vars
    /\ \A r \in Slots :
          (req[r].kind = "embed" /\ req[r].pc # "done") ~> (req[r].pc = "done")

\* A batch of two returned: its first file Failed after the index add, its
\* second was Rejected-Duplicate.
C16_Witness ==
    \E r \in Slots :
        /\ req[r].kind = "embed" /\ req[r].pc = "done"
        /\ Len(hist[r]) = 2
        /\ hist[r][1].status = "Failed" /\ hist[r][1].added
        /\ hist[r][2].status = "Rejected-Duplicate"

\* The entries of the collection for the pair of d.
EntriesFor(idx, d) ==
    { e \in idx : e.course_code = d.course_code /\ e.source = d.filename }

\* C17: when a file reaches Accepted with n chunks, the entries of the index
\* with its course_code and source are n, one under each of the ids
\* course_code-filename-0 .. course_code-filename-(n-1): none is left of an
\* earlier add of the pair under a higher number, and none is there twice.
C17_IndexIsLastUpload ==
    [][\A r \in Slots :
         ( /\ req[r].kind = "embed" /\ req[r].pc = "insert"
           /\ Moves(r)
           /\ hist'[r][req[r].i].status = "Accepted" )
         => LET d == FileAt(r, req[r].i)
                n == Len(create_documents(req[r].content))
            IN /\ { e.id : e \in EntriesFor(index', d) }
                    = { IdOf(d.course_code, d.filename, k) : k \in 0..(n - 1) }
               /\ Cardinality(EntriesFor(index', d)) = n]_vars

\* The pairs the registry or the index knows of.
KnownPairs ==
    { <<x.course_code, x.document_name>> : x \in BagToSet(registry) }
      \cup { <<e.course_code, e.source>> : e \in index }

\* C18: between requests that run one at a time, with no registry or index
\* operation raising and every uploaded file having text, a pair has a row in
\* the registry exactly when it has an entry in the index, whatever the disk
\* removals did.
C18_RegistryMatchesIndex ==
    Quiet =>
        \A pr \in KnownPairs :
            HasRecord(registry, pr[1], pr[2]) <=> HasEntries(index, pr[1], pr[2])

\* A deletion removed a row and its entries and failed at the disk removal,
\* while another document is still stored.
C18_Witness ==
    /\ Quiet
    /\ \E r \in Slots :
          /\ req[r].kind = "delete" /\ req[r].pc = "done"
          /\ req[r].result = Literal("failed")
          /\ Len(hist[r]) = 2
          /\ hist[r][1].n >= 1 /\ hist[r][2].n >= 1
    /\ registry # EmptyBag /\ index # {}

\* C19: the index delete of delete_document(course_code, filename) removes no
\* chunk of that pair while the registry holds a row for it: an upload of the
\* pair that runs at the same time and keeps its row keeps its chunks.
C19_DeleteKeepsRegisteredChunks ==
    [][\A r \in Slots :
         (req[r].kind = "delete" /\ req[r].pc = "index" /\ req'[r].pc = "disk")
         => \A e \in index \ index' :
               e.course_code = req[r].course_code
                 => ~HasRecord(registry', e.course_code, e.source)]_vars

===========================================================================
